---- MODULE Spec2Model ----
(***************************************************************************)
(* palette-tokens core (src/lib/core.js): scale generation, role           *)
(* resolution and the WCAG contrast audit, as a state machine whose        *)
(* actions are the exported functions.                                     *)
(*                                                                         *)
(* Encoding of JavaScript values                                           *)
(*   hex colour "#rrggbb"  the 24-bit number rrggbb (\H6366f1)              *)
(*   undefined             -1 in a slot that otherwise holds a number      *)
(*   null                  the one-field record [null |-> TRUE]            *)
(*   object                a function from its keys (strings) to values    *)
(*   thrown exception      [threw |-> name]                                *)
(* Real numbers are fixed point: lightness and chroma in 1/1000, hue in    *)
(* whole degrees, linearised channels in 1/10000, luminance in 1/10^8; a   *)
(* contrast ratio is the exact fraction [num, den] and a rounded ratio is  *)
(* a whole number of hundredths.                                           *)
(***************************************************************************)
EXTENDS Integers, Sequences, FiniteSets, TLC

VARIABLES
  SHADE_KEYS,   \* module-level export, core.js:15
  LIGHT_ROLES,  \* module-level export, core.js:54
  DARK_ROLES,   \* module-level export, core.js:64
  options,      \* the caller's options object, as it is after the last generatePalette
  call,         \* the last exported function invoked, with its arguments
  ret,          \* what that invocation returned (or threw)
  secSeed,      \* the colour generateSecondaryScale last handed to formatHex
  log           \* the generatePalette invocations so far: <<[hex, scheme, dark, ret]>>

vars == <<SHADE_KEYS, LIGHT_ROLES, DARK_ROLES, options, call, ret, secSeed, log>>

undefined == 0 - 1

null == [null |-> TRUE]

TypeError == [threw |-> "TypeError"]

Range(s) == {s[i] : i \in DOMAIN s}

Max2(a, b) == IF a >= b THEN a ELSE b

Min2(a, b) == IF a <= b THEN a ELSE b

Abs(a) == IF a < 0 THEN 0 - a ELSE a

\* obj[key] of a JavaScript object: undefined when the key is absent
Get(obj, key) == IF key \in DOMAIN obj THEN obj[key] ELSE undefined

(***************************************************************************)
(* The colour-science collaborator (packages culori and dittotones, which  *)
(* are imported, not part of the repository).  A deterministic integer     *)
(* stand-in with the interface the core relies on: parse a hex into a      *)
(* cylindrical colour whose hue is absent for an achromatic colour and     *)
(* otherwise lies in [0,360); format a cylindrical colour back into a hex, *)
(* clamping channels; synthesise from a seed hex an 11-entry ramp of       *)
(* colours, lightest at "50" and darkest at "950".                         *)
(***************************************************************************)
parse(hex) ==
  [mode |-> "rgb", r |-> hex \div 65536, g |-> (hex \div 256) % 256, b |-> hex % 256]

oklch(rgb) ==
  LET mx == Max2(rgb.r, Max2(rgb.g, rgb.b))
      mn == Min2(rgb.r, Min2(rgb.g, rgb.b))
      d  == mx - mn
      raw == IF mx = rgb.r THEN (60 * (rgb.g - rgb.b)) \div d
             ELSE IF mx = rgb.g THEN 120 + ((60 * (rgb.b - rgb.r)) \div d)
             ELSE 240 + ((60 * (rgb.r - rgb.g)) \div d)
  IN  [mode |-> "oklch",
       l |-> ((mx + mn) * 1000) \div 510,
       c |-> (d * 400) \div 255,
       h |-> IF d = 0 THEN undefined ELSE (raw + 360) % 360]

clamp(v) == Max2(0, Min2(255, v))

formatHex(color) ==
  LET h  == IF color.h = undefined THEN 0 ELSE color.h % 360
      C  == (color.c * 255) \div 400
      X  == (C * (60 - Abs((h % 120) - 60))) \div 60
      m  == ((color.l * 255) \div 1000) - (C \div 2)
      k  == h \div 60
      t  == IF k = 0 THEN <<C, X, 0>>
            ELSE IF k = 1 THEN <<X, C, 0>>
            ELSE IF k = 2 THEN <<0, C, X>>
            ELSE IF k = 3 THEN <<0, X, C>>
            ELSE IF k = 4 THEN <<X, 0, C>>
            ELSE <<C, 0, X>>
  IN  clamp(t[1] + m) * 65536 + clamp(t[2] + m) * 256 + clamp(t[3] + m)

\* lightness of each step of the ramps, in 1/1000
rampLightness ==
  ("50" :> 970 @@ "100" :> 930 @@ "200" :> 870 @@ "300" :> 780 @@ "400" :> 660 @@
   "500" :> 550 @@ "600" :> 450 @@ "700" :> 360 @@ "800" :> 270 @@ "900" :> 190 @@
   "950" :> 120)

\* ditto.generate(hex)
dittoGenerate(hex) ==
  LET p == oklch(parse(hex))
  IN  [scale |-> [shade \in DOMAIN rampLightness |->
                    [mode |-> "oklch", l |-> rampLightness[shade], c |-> p.c, h |-> p.h]]]

(***************************************************************************)
(* Conversion helpers and scale generation                                 *)
(***************************************************************************)
hueToHex(hue) == formatHex([mode |-> "oklch", l |-> 550, c |-> 200, h |-> hue])

scaleToHexMap(scale) == [shade \in Range(SHADE_KEYS) |-> formatHex(scale[shade])]

generateColorScale(primaryHex) == scaleToHexMap(dittoGenerate(primaryHex).scale)

generateNeutralScale(primaryHex) ==
  LET p == oklch(parse(primaryHex))
      neutralHex == formatHex([mode |-> "oklch", l |-> p.l,
                               c |-> Min2((p.c * 12) \div 100, 20), h |-> p.h])
  IN  scaleToHexMap(dittoGenerate(neutralHex).scale)

\* const shift = scheme === 'analogous' ? 40 : 180
shiftOf(scheme) == IF scheme = "analogous" THEN 40 ELSE 180

\* p.h || 0: undefined and 0 are both falsy
orZero(h) == IF h = undefined \/ h = 0 THEN 0 ELSE h

\* faulty variant of newHueOf: the shifted hue is not reduced mod 360
newHueOf_noWrap(p, scheme) == orZero(p.h) + shiftOf(scheme)

\* const newHue = ((p.h || 0) + shift) % 360
newHueOf(p, scheme) == (orZero(p.h) + shiftOf(scheme)) % 360

\* the colour object generateSecondaryScale hands to formatHex
secondarySeed(primaryHex, scheme) ==
  LET p == oklch(parse(primaryHex))
  IN  [mode |-> "oklch", l |-> p.l, c |-> (p.c * 85) \div 100, h |-> newHueOf(p, scheme)]

\* faulty variant of generateSecondaryScale: 'single' yields an empty scale, not null
generateSecondaryScale_emptyForSingle(primaryHex, scheme) ==
  IF scheme = "single" THEN << >>
  ELSE LET secHex == formatHex(secondarySeed(primaryHex, scheme))
       IN  scaleToHexMap(dittoGenerate(secHex).scale)

generateSecondaryScale(primaryHex, scheme) ==
  IF scheme = "single" THEN null
  ELSE LET secHex == formatHex(secondarySeed(primaryHex, scheme))
       IN  scaleToHexMap(dittoGenerate(secHex).scale)

(***************************************************************************)
(* Role mapping                                                            *)
(***************************************************************************)
LightRoleTable ==
  ("bg"         :> [source |-> "neutral", shade |-> "50"]  @@
   "surface"    :> [source |-> "neutral", shade |-> "100"] @@
   "border"     :> [source |-> "neutral", shade |-> "200"] @@
   "text-muted" :> [source |-> "neutral", shade |-> "500"] @@
   "text"       :> [source |-> "neutral", shade |-> "900"] @@
   "primary"    :> [source |-> "color",   shade |-> "500"] @@
   "secondary"  :> [source |-> "accent",  shade |-> "200"])

DarkRoleTable ==
  ("bg"           :> [source |-> "neutral", shade |-> "900"] @@
   "surface"      :> [source |-> "neutral", shade |-> "800"] @@
   "border"       :> [source |-> "neutral", shade |-> "700"] @@
   "text-muted"   :> [source |-> "neutral", shade |-> "400"] @@
   "text"         :> [source |-> "neutral", shade |-> "50"]  @@
   "primary"      :> [source |-> "color",   shade |-> "600"] @@
   "primary-text" :> [source |-> "color",   shade |-> "400"] @@
   "secondary"    :> [source |-> "accent",  shade |-> "800"])

ShadeKeyList == <<"50", "100", "200", "300", "400", "500", "600", "700", "800", "900", "950">>

\* faulty variant of resolveTokens: the role tables are selected the wrong way round
resolveTokens_swappedTables(colorScale, neutralScale, secondaryScale, dark) ==
  LET roles == IF dark THEN LIGHT_ROLES ELSE DARK_ROLES
      accentScale == IF secondaryScale # null THEN secondaryScale ELSE colorScale
  IN  [role \in DOMAIN roles |->
         LET def == roles[role]
         IN  IF def.source = "neutral" THEN Get(neutralScale, def.shade)
             ELSE IF def.source = "accent" THEN Get(accentScale, def.shade)
             ELSE Get(colorScale, def.shade)]

\* faulty variant of resolveTokens: the accent falls back to the neutral scale
resolveTokens_neutralFallback(colorScale, neutralScale, secondaryScale, dark) ==
  LET roles == IF dark THEN DARK_ROLES ELSE LIGHT_ROLES
      accentScale == IF secondaryScale # null THEN secondaryScale ELSE neutralScale
  IN  [role \in DOMAIN roles |->
         LET def == roles[role]
         IN  IF def.source = "neutral" THEN Get(neutralScale, def.shade)
             ELSE IF def.source = "accent" THEN Get(accentScale, def.shade)
             ELSE Get(colorScale, def.shade)]

resolveTokens(colorScale, neutralScale, secondaryScale, dark) ==
  LET roles == IF dark THEN DARK_ROLES ELSE LIGHT_ROLES
      accentScale == IF secondaryScale # null THEN secondaryScale ELSE colorScale
  IN  [role \in DOMAIN roles |->
         LET def == roles[role]
         IN  IF def.source = "neutral" THEN Get(neutralScale, def.shade)
             ELSE IF def.source = "accent" THEN Get(accentScale, def.shade)
             ELSE Get(colorScale, def.shade)]

(***************************************************************************)
(* WCAG                                                                    *)
(***************************************************************************)
\* ((c + 0.055) / 1.055) ** 2.4 for c = n/255, n = 0..255, in 1/10000
powTable ==
  <<
     0, 3, 6, 9, 12, 15, 18, 21, 24, 27, 30, 33, 37, 40, 44, 48,
     52, 56, 60, 65, 70, 75, 80, 86, 91, 97, 103, 110, 116, 123, 130, 137,
     144, 152, 160, 168, 176, 185, 194, 203, 212, 222, 232, 242, 252, 262, 273, 284,
     296, 307, 319, 331, 343, 356, 369, 382, 395, 409, 423, 437, 452, 467, 482, 497,
     513, 529, 545, 561, 578, 595, 612, 630, 648, 666, 685, 704, 723, 742, 762, 782,
     802, 823, 844, 865, 887, 908, 931, 953, 976, 999, 1022, 1046, 1070, 1095, 1119, 1144,
     1170, 1195, 1221, 1248, 1274, 1301, 1329, 1356, 1384, 1413, 1441, 1470, 1500, 1529, 1559, 1590,
     1620, 1651, 1683, 1714, 1746, 1779, 1812, 1845, 1878, 1912, 1946, 1981, 2016, 2051, 2086, 2122,
     2159, 2195, 2232, 2270, 2307, 2346, 2384, 2423, 2462, 2502, 2542, 2582, 2623, 2664, 2705, 2747,
     2789, 2831, 2874, 2918, 2961, 3005, 3050, 3095, 3140, 3185, 3231, 3278, 3325, 3372, 3419, 3467,
     3515, 3564, 3613, 3663, 3712, 3763, 3813, 3864, 3916, 3968, 4020, 4072, 4125, 4179, 4233, 4287,
     4342, 4397, 4452, 4508, 4564, 4621, 4678, 4735, 4793, 4851, 4910, 4969, 5029, 5089, 5149, 5210,
     5271, 5333, 5395, 5457, 5520, 5583, 5647, 5711, 5776, 5841, 5906, 5972, 6038, 6105, 6172, 6240,
     6308, 6376, 6445, 6514, 6584, 6654, 6724, 6795, 6867, 6939, 7011, 7084, 7157, 7231, 7305, 7379,
     7454, 7529, 7605, 7682, 7758, 7835, 7913, 7991, 8070, 8148, 8228, 8308, 8388, 8469, 8550, 8632,
     8714, 8796, 8879, 8963, 9047, 9131, 9216, 9301, 9387, 9473, 9560, 9647, 9734, 9823, 9911, 10000
  >>

\* toLinear(n / 255), in 1/10000: n/255 <= 0.03928 exactly when n <= 10
toLinear(n) ==
  IF n * 100000 <= 3928 * 255 THEN (n * 1000000 + 164730) \div 329460
  ELSE powTable[n + 1]

\* relative luminance in 1/10^8
relativeLuminance(hex) ==
  LET r == toLinear(hex \div 65536)
      g == toLinear((hex \div 256) % 256)
      b == toLinear(hex % 256)
  IN  2126 * r + 7152 * g + 722 * b

\* faulty variant of contrastRatio: the first argument is always the numerator
contrastRatio_ordered(hex1, hex2) ==
  IF hex1 = undefined \/ hex2 = undefined THEN TypeError
  ELSE [num |-> relativeLuminance(hex1) + 5000000, den |-> relativeLuminance(hex2) + 5000000]

\* hex.slice on undefined throws; otherwise the exact fraction num/den
contrastRatio(hex1, hex2) ==
  IF hex1 = undefined \/ hex2 = undefined THEN TypeError
  ELSE LET l1 == relativeLuminance(hex1)
           l2 == relativeLuminance(hex2)
       IN  [num |-> Max2(l1, l2) + 5000000, den |-> Min2(l1, l2) + 5000000]

\* Math.round(ratio * 100), a whole number of hundredths (round half up)
roundHundredths(ratio) ==
  LET q  == ratio.num \div ratio.den
      r0 == ratio.num % ratio.den
      d1 == (10 * r0) \div ratio.den
      r1 == (10 * r0) % ratio.den
      d2 == (10 * r1) \div ratio.den
      r2 == (10 * r1) % ratio.den
  IN  100 * q + 10 * d1 + d2 + (IF 2 * r2 >= ratio.den THEN 1 ELSE 0)

\* faulty variant of atLeastAA: the AA-large threshold, ratio >= 3
atLeastAA_large(ratio) == ratio.num >= 3 * ratio.den

\* ratio >= 4.5
atLeastAA(ratio) == 2 * ratio.num >= 9 * ratio.den

\* faulty variant of wcagPairs: the primary-text pairs are never added
wcagPairs_sixOnly(tokens) ==
  <<  <<"text", "bg">>, <<"text", "surface">>,
      <<"text-muted", "bg">>, <<"text-muted", "surface">>,
      <<"primary", "bg">>, <<"primary", "surface">>  >>

wcagPairs(tokens) ==
  <<  <<"text", "bg">>, <<"text", "surface">>,
      <<"text-muted", "bg">>, <<"text-muted", "surface">>,
      <<"primary", "bg">>, <<"primary", "surface">>  >>
  \o (IF Get(tokens, "primary-text") # undefined
      THEN <<  <<"primary-text", "bg">>, <<"primary-text", "surface">>  >>
      ELSE << >>)

pairKey(pair) == pair[1] \o "/" \o pair[2]

checkWCAG(tokens) ==
  LET pairs == wcagPairs(tokens)
      ratioOf(pair) == contrastRatio(Get(tokens, pair[1]), Get(tokens, pair[2]))
  IN  IF \E i \in DOMAIN pairs : ratioOf(pairs[i]) = TypeError THEN TypeError
      ELSE [key \in {pairKey(pairs[i]) : i \in DOMAIN pairs} |->
              LET pair == CHOOSE p \in Range(pairs) : pairKey(p) = key
                  ratio == ratioOf(pair)
              IN  [ratio |-> roundHundredths(ratio), pass |-> atLeastAA(ratio)]]

(***************************************************************************)
(* Main entry                                                              *)
(***************************************************************************)
\* generatePalette called with no options argument
noArg == [omitted |-> TRUE]

\* { scheme = 'single', dark = false } = {}
schemeOf(opts) ==
  LET o == IF opts = noArg THEN << >> ELSE opts
  IN  IF "scheme" \in DOMAIN o THEN o.scheme ELSE "single"

darkOf(opts) ==
  LET o == IF opts = noArg THEN << >> ELSE opts
  IN  IF "dark" \in DOMAIN o THEN o.dark ELSE FALSE

\* the value generatePalette returns; an exception of checkWCAG propagates
paletteOf(primaryHex, opts) ==
  LET colorScale     == generateColorScale(primaryHex)
      neutralScale   == generateNeutralScale(primaryHex)
      secondaryScale == generateSecondaryScale(primaryHex, schemeOf(opts))
      tokens         == resolveTokens(colorScale, neutralScale, secondaryScale, darkOf(opts))
      wcag           == checkWCAG(tokens)
  IN  IF wcag = TypeError THEN TypeError
      ELSE [tokens |-> tokens, colorScale |-> colorScale, neutralScale |-> neutralScale,
            secondaryScale |-> secondaryScale, wcag |-> wcag]

\* what generateSecondaryScale handed to formatHex (null on the early return)
seedOf(primaryHex, scheme) ==
  IF scheme = "single" THEN null ELSE secondarySeed(primaryHex, scheme)

(***************************************************************************)
(* Inputs                                                                  *)
(***************************************************************************)
MaxCalls == 3

HueSamples == 12

PrimaryHexes == {\H6366f1, \Hff0000, \H808080, \Hec4899}

HueWheel == {hueToHex((k * 360) \div HueSamples) : k \in 0 .. (HueSamples - 1)}

Schemes == {"single", "analogous", "complementary", "triadic"}

OptionObjects ==
  {noArg, << >>}
    \cup {[scheme |-> s] : s \in Schemes}
    \cup {[dark |-> d] : d \in BOOLEAN}
    \cup {[scheme |-> s, dark |-> d] : s \in Schemes, d \in BOOLEAN}

\* the inputs of the recorded runs of generatePalette
CallHexes == {\H6366f1, \H808080}

CallOptions ==
  {noArg, [scheme |-> "single", dark |-> FALSE], [scheme |-> "analogous"], [dark |-> TRUE],
   [scheme |-> "complementary", dark |-> TRUE], [scheme |-> "triadic"]}

without(scale, shade) == [k \in DOMAIN scale \ {shade} |-> scale[k]]

ColorScaleInputs ==
  {generateColorScale(h) : h \in PrimaryHexes}
    \cup {without(generateColorScale(\H6366f1), "500")}

NeutralScaleInputs ==
  {generateNeutralScale(h) : h \in PrimaryHexes}
    \cup {without(generateNeutralScale(\H6366f1), "900")}

SecondaryScaleInputs ==
  {null, << >>}
    \cup {generateSecondaryScale(\H6366f1, s) : s \in {"analogous", "complementary"}}
    \cup {without(generateSecondaryScale(\H6366f1, "analogous"), "200")}

HexInputs == {\H000000, \Hffffff, \H747475, \H767676, \H6366f1, \Hff0000, undefined}

\* a light token set whose text/bg contrast is just below 4.5
BoundaryTokens ==
  ("bg" :> \H000000 @@ "surface" :> \H0f172a @@ "border" :> \H334155 @@
   "text-muted" :> \H767676 @@ "text" :> \H747475 @@ "primary" :> \H6366f1 @@
   "secondary" :> \Hc7d2fe)

TokenInputs ==
  {BoundaryTokens}
    \cup {resolveTokens(generateColorScale(h), n, generateSecondaryScale(h, s), d) :
            h \in {\H6366f1, \H808080}, n \in NeutralScaleInputs,
            s \in {"single", "analogous"}, d \in BOOLEAN}

(***************************************************************************)
(* State machine: one action per exported function                         *)
(***************************************************************************)
Init ==
  /\ SHADE_KEYS = ShadeKeyList
  /\ LIGHT_ROLES = LightRoleTable
  /\ DARK_ROLES = DarkRoleTable
  /\ options = noArg
  /\ call = [fn |-> "none"]
  /\ ret = null
  /\ secSeed = null
  /\ log = << >>

GenerateSecondaryScale ==
  \E primaryHex \in PrimaryHexes \cup HueWheel, scheme \in Schemes :
    /\ call' = [fn |-> "generateSecondaryScale", primaryHex |-> primaryHex, scheme |-> scheme]
    /\ ret' = generateSecondaryScale(primaryHex, scheme)
    /\ secSeed' = seedOf(primaryHex, scheme)
    /\ options' = noArg
    /\ UNCHANGED <<SHADE_KEYS, LIGHT_ROLES, DARK_ROLES, log>>

ResolveTokens ==
  \E colorScale \in ColorScaleInputs, neutralScale \in NeutralScaleInputs,
     secondaryScale \in SecondaryScaleInputs, dark \in BOOLEAN :
    /\ call' = [fn |-> "resolveTokens", colorScale |-> colorScale,
                neutralScale |-> neutralScale, secondaryScale |-> secondaryScale,
                dark |-> dark]
    /\ ret' = resolveTokens(colorScale, neutralScale, secondaryScale, dark)
    /\ secSeed' = null
    /\ options' = noArg
    /\ UNCHANGED <<SHADE_KEYS, LIGHT_ROLES, DARK_ROLES, log>>

ContrastRatio ==
  \E hex1 \in HexInputs, hex2 \in HexInputs :
    /\ call' = [fn |-> "contrastRatio", hex1 |-> hex1, hex2 |-> hex2]
    /\ ret' = contrastRatio(hex1, hex2)
    /\ secSeed' = null
    /\ options' = noArg
    /\ UNCHANGED <<SHADE_KEYS, LIGHT_ROLES, DARK_ROLES, log>>

CheckWCAG ==
  \E tokens \in TokenInputs :
    /\ call' = [fn |-> "checkWCAG", tokens |-> tokens]
    /\ ret' = checkWCAG(tokens)
    /\ secSeed' = null
    /\ options' = noArg
    /\ UNCHANGED <<SHADE_KEYS, LIGHT_ROLES, DARK_ROLES, log>>

\* faulty variant of generatePalette: the 'single' fallback is made by patching the
\* shared light role table instead of choosing a local accent scale
generatePalette_patchesRoleTable(primaryHex, opts) ==
  /\ call' = [fn |-> "generatePalette", primaryHex |-> primaryHex, options |-> opts]
  /\ ret' = paletteOf(primaryHex, opts)
  /\ secSeed' = seedOf(primaryHex, schemeOf(opts))
  /\ options' = opts
  /\ LIGHT_ROLES' = IF schemeOf(opts) = "single"
                    THEN [LIGHT_ROLES EXCEPT !["secondary"] = [source |-> "color", shade |-> "800"]]
                    ELSE LIGHT_ROLES
  /\ UNCHANGED <<SHADE_KEYS, DARK_ROLES>>

\* one invocation of generatePalette; it assigns nothing outside its own locals
generatePalette(primaryHex, opts) ==
  /\ call' = [fn |-> "generatePalette", primaryHex |-> primaryHex, options |-> opts]
  /\ ret' = paletteOf(primaryHex, opts)
  /\ secSeed' = seedOf(primaryHex, schemeOf(opts))
  /\ options' = opts
  /\ UNCHANGED <<SHADE_KEYS, LIGHT_ROLES, DARK_ROLES>>

GeneratePalette ==
  \E primaryHex \in PrimaryHexes, opts \in OptionObjects :
    /\ generatePalette(primaryHex, opts)
    /\ UNCHANGED log

Next ==
  \/ GenerateSecondaryScale
  \/ ResolveTokens
  \/ ContrastRatio
  \/ CheckWCAG
  \/ GeneratePalette

Spec == Init /\ [][Next]_vars

\* a bounded run of generatePalette invocations, each recorded in the log
Invocation ==
  /\ Len(log) < MaxCalls
  /\ \E primaryHex \in CallHexes, opts \in CallOptions :
       /\ generatePalette(primaryHex, opts)
       /\ log' = Append(log, [primaryHex |-> primaryHex, scheme |-> schemeOf(opts),
                              dark |-> darkOf(opts), ret |-> ret'])

NextCalls == Invocation

SpecCalls == Init /\ [][NextCalls]_vars

(***************************************************************************)
(* Properties                                                              *)
(***************************************************************************)
ShadeKeySet == Range(ShadeKeyList)

LightRoleNames == {"bg", "surface", "border", "text-muted", "text", "primary", "secondary"}

DarkRoleNames == LightRoleNames \cup {"primary-text"}

RecognizedSchemes == {"single", "analogous", "complementary"}

isHex(v) == v \in 0 .. 16777215

isFullScale(scale) == DOMAIN scale = ShadeKeySet /\ \A k \in ShadeKeySet : isHex(scale[k])

threw(v) == "threw" \in DOMAIN v

\* the scheme option is absent, so the default applies
schemeOmitted(opts) == opts = noArg \/ "scheme" \notin DOMAIN opts

\* C1: generateSecondaryScale(primaryHex, 'single') returns null for every
\* primary hex; generatePalette with scheme 'single' or with no scheme option
\* returns a null secondaryScale, and with 'analogous' or 'complementary' a
\* secondaryScale with exactly the 11 shade keys.
C1_SingleHasNoSecondaryScale ==
  /\ call.fn = "generateSecondaryScale" =>
       /\ call.scheme = "single" => ret = null
       /\ call.scheme \in {"analogous", "complementary"} => isFullScale(ret)
  /\ call.fn = "generatePalette" =>
       /\ ~threw(ret)
       /\ (schemeOmitted(call.options) \/ schemeOf(call.options) = "single")
             => ret.secondaryScale = null
       /\ (~schemeOmitted(call.options)
             /\ call.options.scheme \in {"analogous", "complementary"})
             => isFullScale(ret.secondaryScale)

C1_Witness ==
  /\ call.fn = "generatePalette"
  /\ call.options = [dark |-> TRUE]
  /\ ret.secondaryScale = null
  /\ isFullScale(ret.colorScale)

\* C2: for scales with the 11 shade keys, resolveTokens returns exactly the
\* seven light roles when dark is false and those seven plus primary-text when
\* dark is true, and every token is a hex read from the scale and shade that
\* the role's table entry names.
C2_TokenKeysAndValues ==
  (/\ call.fn = "resolveTokens"
   /\ isFullScale(call.colorScale)
   /\ isFullScale(call.neutralScale)
   /\ (call.secondaryScale = null \/ isFullScale(call.secondaryScale)))
  => LET table  == IF call.dark THEN DarkRoleTable ELSE LightRoleTable
         accent == IF call.secondaryScale = null THEN call.colorScale ELSE call.secondaryScale
         named(source) == IF source = "neutral" THEN call.neutralScale
                          ELSE IF source = "accent" THEN accent
                          ELSE call.colorScale
     IN  /\ DOMAIN ret = (IF call.dark THEN DarkRoleNames ELSE LightRoleNames)
         /\ \A role \in DOMAIN ret :
              /\ isHex(ret[role])
              /\ role \in DOMAIN table
              /\ ret[role] = named(table[role].source)[table[role].shade]

C2_Witness ==
  /\ call.fn = "resolveTokens"
  /\ call.dark
  /\ isFullScale(call.colorScale)
  /\ isFullScale(call.neutralScale)
  /\ isFullScale(call.secondaryScale)
  /\ "primary-text" \in DOMAIN ret
  /\ ret["primary-text"] = call.colorScale["400"]

\* C3: the wcag map of a generatePalette result has exactly the six keys
\* text/bg, text/surface, text-muted/bg, text-muted/surface, primary/bg and
\* primary/surface when dark is false, and those six plus primary-text/bg and
\* primary-text/surface when dark is true, whatever the scheme.
C3_WcagKeys ==
  call.fn = "generatePalette" =>
    LET six == {"text/bg", "text/surface", "text-muted/bg", "text-muted/surface",
                "primary/bg", "primary/surface"}
        dark == call.options # noArg /\ "dark" \in DOMAIN call.options /\ call.options.dark
    IN  /\ ~threw(ret)
        /\ DOMAIN ret.wcag =
             (IF dark THEN six \cup {"primary-text/bg", "primary-text/surface"} ELSE six)
        /\ Cardinality(DOMAIN ret.wcag) = (IF dark THEN 8 ELSE 6)

C3_Witness ==
  /\ call.fn = "generatePalette"
  /\ call.options = [scheme |-> "complementary", dark |-> TRUE]
  /\ Cardinality(DOMAIN ret.wcag) = 8
  /\ "primary-text/surface" \in DOMAIN ret.wcag

C5_InvocationsArePure ==
  /\ SHADE_KEYS = ShadeKeyList
  /\ LIGHT_ROLES = LightRoleTable
  /\ DARK_ROLES = DarkRoleTable
  /\ call.fn = "generatePalette" => options = call.options
  /\ \A i \in DOMAIN log : \A j \in DOMAIN log :
       (/\ log[i].primaryHex = log[j].primaryHex
        /\ log[i].scheme = log[j].scheme
        /\ log[i].dark = log[j].dark)
       => log[i].ret = log[j].ret

C5_Witness ==
  /\ Len(log) = 3
  /\ log[1].primaryHex = log[3].primaryHex
  /\ log[1].scheme = "analogous" /\ log[3].scheme = "analogous"
  /\ ~log[1].dark /\ ~log[3].dark
  /\ log[2].scheme = "single"
  /\ log[1].ret = log[3].ret
  /\ log[1].ret # log[2].ret

\* C6: resolveTokens raises an error whenever a role's shade key is absent from
\* the scale it is looked up in, and never returns a token set in which a role
\* maps to undefined.
C6_ResolveTokensFailsFast ==
  call.fn = "resolveTokens" =>
    \/ threw(ret)
    \/ \A role \in DOMAIN ret : ret[role] # undefined

\* C7: a scheme other than 'single', 'analogous' and 'complementary' makes
\* generateSecondaryScale and generatePalette fail; it never yields a secondary
\* scale as if a recognized scheme had been given.
C7_UnknownSchemeFailsFast ==
  /\ (call.fn = "generateSecondaryScale" /\ call.scheme \notin RecognizedSchemes)
       => threw(ret)
  /\ (call.fn = "generatePalette" /\ schemeOf(call.options) \notin RecognizedSchemes)
       => threw(ret)

\* C8: contrastRatio(a, b) equals contrastRatio(b, a) for all hex pairs: the
\* lighter luminance is the numerator and the darker the denominator whatever
\* the argument order.
C8_ContrastRatioSymmetric ==
  call.fn = "contrastRatio" =>
    /\ ret = contrastRatio(call.hex2, call.hex1)
    /\ ~threw(ret) =>
         /\ ret.num >= ret.den
         /\ ret.num = Max2(relativeLuminance(call.hex1), relativeLuminance(call.hex2)) + 5000000
         /\ ret.den = Min2(relativeLuminance(call.hex1), relativeLuminance(call.hex2)) + 5000000

C8_Witness ==
  /\ call.fn = "contrastRatio"
  /\ call.hex1 = \H000000
  /\ call.hex2 = \Hffffff
  /\ ret = [num |-> 105000000, den |-> 5000000]

\* C9 as claimed: in every entry checkWCAG returns, pass is true exactly when
\* the stored, rounded ratio is at least 4.5.
C9_PassIffStoredRatio ==
  (call.fn = "checkWCAG" /\ ~threw(ret)) =>
    \A key \in DOMAIN ret : ret[key].pass <=> ret[key].ratio >= 450

\* C9 as amended: pass is true exactly when the unrounded contrast ratio is at
\* least 4.5; so pass implies a stored ratio of at least 4.5 and a stored ratio
\* above 4.5 implies pass, while a stored ratio of exactly 4.5 may go with
\* pass false.
C9_PassIffUnroundedRatio ==
  (call.fn = "checkWCAG" /\ ~threw(ret)) =>
    \A fg \in {"text", "text-muted", "primary", "primary-text"} :
      \A bg \in {"bg", "surface"} :
        LET key == fg \o "/" \o bg
        IN  key \in DOMAIN ret =>
              LET l1 == relativeLuminance(call.tokens[fg])
                  l2 == relativeLuminance(call.tokens[bg])
              IN  /\ ret[key].pass <=>
                       2 * (Max2(l1, l2) + 5000000) >= 9 * (Min2(l1, l2) + 5000000)
                  /\ ret[key].pass => ret[key].ratio >= 450
                  /\ ret[key].ratio > 450 => ret[key].pass

C9_Witness ==
  /\ call.fn = "checkWCAG"
  /\ ~threw(ret)
  /\ ret["text/bg"].ratio = 450
  /\ ~ret["text/bg"].pass
  /\ \E key \in DOMAIN ret : ret[key].pass
  /\ \E key \in DOMAIN ret : ret[key].ratio < 450

\* C10: the secondary seed hue is (primaryHue + 40) mod 360 for 'analogous' and
\* (primaryHue + 180) mod 360 for 'complementary', an absent primary hue
\* counting as 0, and it lies in [0,360) for every primary hue in [0,360).
C10_SeedHue ==
  (call.fn \in {"generateSecondaryScale", "generatePalette"}
     /\ (IF call.fn = "generatePalette" THEN schemeOf(call.options) ELSE call.scheme)
          \in {"analogous", "complementary"}) =>
    LET scheme == IF call.fn = "generatePalette" THEN schemeOf(call.options) ELSE call.scheme
        h      == oklch(parse(call.primaryHex)).h
        base   == IF h = undefined THEN 0 ELSE h
    IN  /\ h = undefined \/ h \in 0 .. 359
        /\ secSeed.h = (base + (IF scheme = "analogous" THEN 40 ELSE 180)) % 360
        /\ secSeed.h \in 0 .. 359

C10_Witness ==
  /\ call.fn = "generateSecondaryScale"
  /\ call.primaryHex = \H808080
  /\ oklch(parse(call.primaryHex)).h = undefined
  /\ call.scheme = "analogous"
  /\ secSeed.h = 40
  /\ isFullScale(ret)
====
